---- MODULE Spec2Model ----
(***************************************************************************)
(* Model of the streaming chat adapter in src/server/main.py:              *)
(* chat_endpoint validates a request and answers it with a 422, with the   *)
(* fixed diagnostic stream of text_response, or with chat_stream, in which *)
(* a producing task (run_agent, driving event_stream_handler) and the      *)
(* draining consumer (the async-for of chat_stream, pulled by              *)
(* sse_messages) meet on an anyio memory object stream.                    *)
(*                                                                         *)
(* Python values whose type is optional or Any are tagged records          *)
(* [py |-> type name, v |-> value]; fields typed str are plain strings.    *)
(***************************************************************************)
EXTENDS Integers, Sequences, FiniteSets, TLC

(* ------------------------------ bounds -------------------------------- *)

\* longest agent event sequence handed to event_stream_handler
MaxEvents == 2
\* longest messages list of a request body
MaxMessages == 2
\* most parts in one message
MaxParts == 1

(* --------------------------- python values ---------------------------- *)

None == [py |-> "NoneType"]
Str(s) == [py |-> "str", v |-> s]
Dict(d) == [py |-> "dict", v |-> d]

IsNone(x) == x.py = "NoneType"
IsStr(x) == x.py = "str"
\* python truthiness of an optional string
Truthy(x) == IF IsStr(x) THEN x.v # "" ELSE FALSE

RECURSIVE JoinStr(_, _)
\* sep.join(parts)
JoinStr(parts, sep) ==
    IF parts = <<>> THEN ""
    ELSE IF Len(parts) = 1 THEN parts[1]
    ELSE parts[1] \o sep \o JoinStr(Tail(parts), sep)

\* json.dumps of a str
JsonStr(s) == "\"" \o s \o "\""

\* json.dumps of a dict of strings, given as a sequence of <<key, value>>
json_dumps(d) ==
    "{" \o JoinStr([i \in 1..Len(d) |-> JsonStr(d[i][1]) \o ": " \o JsonStr(d[i][2])], ", ") \o "}"

\* JSON text of an Any value
to_json(x) ==
    IF IsNone(x) THEN "null"
    ELSE IF IsStr(x) THEN JsonStr(x.v)
    ELSE json_dumps(x.v)

(* ------------------------------- chunks ------------------------------- *)

StartChunk == [type |-> "start", message_id |-> None, message_metadata |-> None]
FinishChunk == [type |-> "finish", message_metadata |-> None]
StartStepChunk == [type |-> "start-step"]
FinishStepChunk == [type |-> "finish-step"]
TextStartChunk(id) == [type |-> "text-start", id |-> id, provider_metadata |-> None]
TextDeltaChunk(id, delta) ==
    [type |-> "text-delta", delta |-> delta, id |-> id, provider_metadata |-> None]
ReasoningStartChunk(id) == [type |-> "reasoning-start", id |-> id, provider_metadata |-> None]
ReasoningDeltaChunk(id, delta) ==
    [type |-> "reasoning-delta", id |-> id, delta |-> delta, provider_metadata |-> None]
ToolInputStartChunk(tool_call_id, tool_name) ==
    [type |-> "tool-input-start", tool_call_id |-> tool_call_id, tool_name |-> tool_name,
     provider_executed |-> None, dynamic |-> None]
ToolInputDeltaChunk(tool_call_id, input_text_delta) ==
    [type |-> "tool-input-delta", tool_call_id |-> tool_call_id,
     input_text_delta |-> input_text_delta]
ToolOutputAvailableChunk(tool_call_id, output) ==
    [type |-> "tool-output-available", tool_call_id |-> tool_call_id, output |-> output,
     provider_executed |-> None, dynamic |-> None, preliminary |-> None]

\* fields of the chunk models whose value may be None
NullableFields ==
    {"message_id", "message_metadata", "provider_metadata", "provider_executed",
     "dynamic", "preliminary", "output"}

\* pydantic.alias_generators.to_camel on the field names of the chunk models
to_camel(f) ==
    CASE f = "message_id" -> "messageId"
      [] f = "message_metadata" -> "messageMetadata"
      [] f = "provider_metadata" -> "providerMetadata"
      [] f = "provider_executed" -> "providerExecuted"
      [] f = "tool_call_id" -> "toolCallId"
      [] f = "tool_name" -> "toolName"
      [] f = "input_text_delta" -> "inputTextDelta"
      [] OTHER -> f

\* chunk.model_dump_json(exclude_none=True, by_alias=True): the JSON object,
\* as a record from wire names to JSON text
model_dump_json(chunk) ==
    LET kept == {f \in DOMAIN chunk :
                    IF f \in NullableFields THEN ~IsNone(chunk[f]) ELSE TRUE}
        field(k) == CHOOSE f \in kept : to_camel(f) = k
    IN  [k \in {to_camel(f) : f \in kept} |->
            IF field(k) \in NullableFields THEN to_json(chunk[field(k)])
            ELSE JsonStr(chunk[field(k)])]

\* the sentinel sse_messages yields after the chunks
DONE == [sentinel |-> "[DONE]"]
IsDONE(x) == "sentinel" \in DOMAIN x

(* ---------------------------- agent events ---------------------------- *)

TextPart(content) == [part_kind |-> "text", content |-> content]
ThinkingPart(content) == [part_kind |-> "thinking", content |-> content]
ToolCallPart(tool_name, tool_call_id, args) ==
    [part_kind |-> "tool-call", tool_name |-> tool_name, tool_call_id |-> tool_call_id,
     args |-> args]
BuiltinToolCallPart(tool_name, tool_call_id, args) ==
    [part_kind |-> "builtin-tool-call", tool_name |-> tool_name,
     tool_call_id |-> tool_call_id, args |-> args]
BuiltinToolReturnPart(tool_name, tool_call_id, content) ==
    [part_kind |-> "builtin-tool-return", tool_name |-> tool_name,
     tool_call_id |-> tool_call_id, content |-> content]
ToolReturnPart(tool_name, tool_call_id, content) ==
    [part_kind |-> "tool-return", tool_name |-> tool_name, tool_call_id |-> tool_call_id,
     content |-> content]
RetryPromptPart(tool_name, tool_call_id, content) ==
    [part_kind |-> "retry-prompt", tool_name |-> tool_name, tool_call_id |-> tool_call_id,
     content |-> content]
\* a part kind the handler has no arm for
FilePart == [part_kind |-> "file"]

\* content_delta is held tagged in both delta kinds (it is optional in one)
TextPartDelta(content_delta) == [part_delta_kind |-> "text", content_delta |-> content_delta]
ThinkingPartDelta(content_delta) ==
    [part_delta_kind |-> "thinking", content_delta |-> content_delta]
ToolCallPartDelta(args_delta, tool_call_id) ==
    [part_delta_kind |-> "tool_call", args_delta |-> args_delta,
     tool_call_id |-> tool_call_id]
\* a delta kind the handler has no arm for
OtherPartDelta == [part_delta_kind |-> "other"]

PartStartEvent(part) == [event_kind |-> "part_start", part |-> part]
PartDeltaEvent(delta) == [event_kind |-> "part_delta", delta |-> delta]
FinalResultEvent(tool_name, tool_call_id) ==
    [event_kind |-> "final_result", tool_name |-> tool_name, tool_call_id |-> tool_call_id]
FunctionToolCallEvent(part) == [event_kind |-> "function_tool_call", part |-> part]
FunctionToolResultEvent(result) == [event_kind |-> "function_tool_result", result |-> result]
BuiltinToolCallEvent(part) == [event_kind |-> "builtin_tool_call", part |-> part]
BuiltinToolResultEvent(result) == [event_kind |-> "builtin_tool_result", result |-> result]
\* an event kind the handler has no arm for
OtherEvent == [event_kind |-> "other"]

\* the argument payloads of a tool call: absent, textual, structured
ArgsValues == {None, Str("{\"location\""), Dict(<< <<"location", "Berlin">> >>)}

\* the events the agent may hand to the handler
AgentStreamEvents ==
    {PartStartEvent(TextPart(c)) : c \in {"", "Hi"}}
    \cup {PartStartEvent(ToolCallPart("calc", "t1", a)) : a \in ArgsValues}
    \cup {PartStartEvent(BuiltinToolCallPart("calc", "t1", Str("{\"location\"")))}
    \cup {PartStartEvent(BuiltinToolReturnPart("calc", "t1", Str("42")))}
    \cup {PartStartEvent(ThinkingPart("hm"))}
    \cup {PartStartEvent(FilePart)}
    \cup {PartDeltaEvent(TextPartDelta(Str("Hi")))}
    \cup {PartDeltaEvent(ThinkingPartDelta(c)) : c \in {None, Str(""), Str("hm")}}
    \cup {PartDeltaEvent(ToolCallPartDelta(a, None)) : a \in ArgsValues}
    \cup {PartDeltaEvent(ToolCallPartDelta(a, Str("t1"))) : a \in {None, Str("{\"location\"")}}
    \cup {PartDeltaEvent(OtherPartDelta)}
    \cup {FinalResultEvent(Str("calc"), i) : i \in {None, Str(""), Str("t1"), Str("t2")}}
    \cup {FinalResultEvent(n, Str("t1")) : n \in {None, Str("")}}
    \cup {FunctionToolCallEvent(ToolCallPart("calc", "t1", None))}
    \cup {FunctionToolResultEvent(ToolReturnPart("calc", "t1", Str("42")))}
    \cup {FunctionToolResultEvent(RetryPromptPart("calc", "t1", Str("42")))}
    \cup {BuiltinToolCallEvent(BuiltinToolCallPart("calc", "t1", a)) : a \in ArgsValues}
    \cup {BuiltinToolResultEvent(BuiltinToolReturnPart("calc", "t1", c)) : c \in {None, Str("42")}}
    \cup {OtherEvent}

(* ------------------------ event_stream_handler ------------------------ *)

\* the if isinstance(args, str) / elif args is not None chain
ArgsDeltaChunks(tool_call_id, args) ==
    IF IsStr(args) THEN <<ToolInputDeltaChunk(tool_call_id, args.v)>>
    ELSE IF ~IsNone(args) THEN <<ToolInputDeltaChunk(tool_call_id, json_dumps(args.v))>>
    ELSE <<>>

\* case PartStartEvent(part=part): the chunks sent, in order
PartStartChunks(part, message_id) ==
    CASE part.part_kind = "text" ->
            <<TextStartChunk(message_id), TextDeltaChunk(message_id, part.content)>>
      [] part.part_kind \in {"tool-call", "builtin-tool-call"} ->
            <<ToolInputStartChunk(part.tool_call_id, part.tool_name)>>
                \o ArgsDeltaChunks(part.tool_call_id, part.args)
      [] part.part_kind = "builtin-tool-return" ->
            <<ToolOutputAvailableChunk(part.tool_call_id, part.content)>>
      [] part.part_kind = "thinking" ->
            <<ReasoningStartChunk(message_id), ReasoningDeltaChunk(message_id, part.content)>>
      [] OTHER -> <<>>

\* mutant: an args delta whose tool-call id is absent is dropped
PartDeltaChunks_DropNoId(delta, message_id) ==
    CASE delta.part_delta_kind = "text" ->
            <<TextDeltaChunk(message_id, delta.content_delta.v)>>
      [] delta.part_delta_kind = "thinking" ->
            IF Truthy(delta.content_delta)
            THEN <<ReasoningDeltaChunk(message_id, delta.content_delta.v)>>
            ELSE <<>>
      [] delta.part_delta_kind = "tool_call" ->
            IF Truthy(delta.tool_call_id)
            THEN ArgsDeltaChunks(delta.tool_call_id.v, delta.args_delta)
            ELSE <<>>
      [] OTHER -> <<>>

\* mutant: a reasoning delta is sent even when the delta is empty
PartDeltaChunks_ThinkingAlways(delta, message_id) ==
    CASE delta.part_delta_kind = "text" ->
            <<TextDeltaChunk(message_id, delta.content_delta.v)>>
      [] delta.part_delta_kind = "thinking" ->
            <<ReasoningDeltaChunk(message_id,
                IF IsStr(delta.content_delta) THEN delta.content_delta.v ELSE "")>>
      [] delta.part_delta_kind = "tool_call" ->
            ArgsDeltaChunks(IF Truthy(delta.tool_call_id) THEN delta.tool_call_id.v ELSE "",
                            delta.args_delta)
      [] OTHER -> <<>>

\* case PartDeltaEvent(delta=delta)
PartDeltaChunks(delta, message_id) ==
    CASE delta.part_delta_kind = "text" ->
            <<TextDeltaChunk(message_id, delta.content_delta.v)>>
      [] delta.part_delta_kind = "thinking" ->
            IF Truthy(delta.content_delta)
            THEN <<ReasoningDeltaChunk(message_id, delta.content_delta.v)>>
            ELSE <<>>
      [] delta.part_delta_kind = "tool_call" ->
            ArgsDeltaChunks(IF Truthy(delta.tool_call_id) THEN delta.tool_call_id.v ELSE "",
                            delta.args_delta)
      [] OTHER -> <<>>

\* mutant: the arm tests for None where the code tests truthiness
FinalResultTaken_NotNone(event) == ~IsNone(event.tool_call_id) /\ ~IsNone(event.tool_name)

\* case FinalResultEvent: does the arm record the id and send
FinalResultTaken(event) == Truthy(event.tool_call_id) /\ Truthy(event.tool_name)

\* mutant: a retry prompt is not surfaced
FunctionToolResultChunks_RetryDropped(result) ==
    CASE result.part_kind = "tool-return" ->
            <<ToolOutputAvailableChunk(result.tool_call_id, result.content)>>
      [] OTHER -> <<>>

\* mutant: a retry prompt is surfaced as a tool-output-error chunk
FunctionToolResultChunks_RetryError(result) ==
    CASE result.part_kind = "tool-return" ->
            <<ToolOutputAvailableChunk(result.tool_call_id, result.content)>>
      [] result.part_kind = "retry-prompt" ->
            <<[type |-> "tool-output-error", tool_call_id |-> result.tool_call_id,
               error_text |-> "retry"]>>
      [] OTHER -> <<>>

\* case FunctionToolResultEvent(result=result)
FunctionToolResultChunks(result) ==
    CASE result.part_kind = "tool-return" ->
            <<ToolOutputAvailableChunk(result.tool_call_id, result.content)>>
      [] result.part_kind = "retry-prompt" ->
            <<ToolOutputAvailableChunk(result.tool_call_id, result.content)>>
      [] OTHER -> <<>>

\* mutant: a function-tool-call event announces its tool call
EventChunks_ToolCallStart(event, message_id) ==
    CASE event.event_kind = "part_start" -> PartStartChunks(event.part, message_id)
      [] event.event_kind = "part_delta" -> PartDeltaChunks(event.delta, message_id)
      [] event.event_kind = "final_result" ->
            IF FinalResultTaken(event)
            THEN <<ToolInputStartChunk(event.tool_call_id.v, event.tool_name.v)>>
            ELSE <<>>
      [] event.event_kind = "function_tool_call" -> 
            <<ToolInputStartChunk(event.part.tool_call_id, event.part.tool_name)>>
      [] event.event_kind = "function_tool_result" -> FunctionToolResultChunks(event.result)
      [] event.event_kind = "builtin_tool_call" ->
            <<ToolInputStartChunk(event.part.tool_call_id, event.part.tool_name)>>
                \o ArgsDeltaChunks(event.part.tool_call_id, event.part.args)
      [] event.event_kind = "builtin_tool_result" ->
            <<ToolOutputAvailableChunk(event.result.tool_call_id, event.result.content)>>
      [] OTHER -> <<>>

\* mutant: a builtin-tool-call event sends no args
EventChunks_BuiltinNoDelta(event, message_id) ==
    CASE event.event_kind = "part_start" -> PartStartChunks(event.part, message_id)
      [] event.event_kind = "part_delta" -> PartDeltaChunks(event.delta, message_id)
      [] event.event_kind = "final_result" ->
            IF FinalResultTaken(event)
            THEN <<ToolInputStartChunk(event.tool_call_id.v, event.tool_name.v)>>
            ELSE <<>>
      [] event.event_kind = "function_tool_call" -> <<>>
      [] event.event_kind = "function_tool_result" -> FunctionToolResultChunks(event.result)
      [] event.event_kind = "builtin_tool_call" ->
            <<ToolInputStartChunk(event.part.tool_call_id, event.part.tool_name)>>
      [] event.event_kind = "builtin_tool_result" ->
            <<ToolOutputAvailableChunk(event.result.tool_call_id, event.result.content)>>
      [] OTHER -> <<>>

\* match event: the chunks one event makes the handler send, in order
EventChunks(event, message_id) ==
    CASE event.event_kind = "part_start" -> PartStartChunks(event.part, message_id)
      [] event.event_kind = "part_delta" -> PartDeltaChunks(event.delta, message_id)
      [] event.event_kind = "final_result" ->
            IF FinalResultTaken(event)
            THEN <<ToolInputStartChunk(event.tool_call_id.v, event.tool_name.v)>>
            ELSE <<>>
      [] event.event_kind = "function_tool_call" -> <<>>
      [] event.event_kind = "function_tool_result" -> FunctionToolResultChunks(event.result)
      [] event.event_kind = "builtin_tool_call" ->
            <<ToolInputStartChunk(event.part.tool_call_id, event.part.tool_name)>>
                \o ArgsDeltaChunks(event.part.tool_call_id, event.part.args)
      [] event.event_kind = "builtin_tool_result" ->
            <<ToolOutputAvailableChunk(event.result.tool_call_id, event.result.content)>>
      [] OTHER -> <<>>

\* mutant: the first recorded id is kept, later final results do not replace it
FinalResultToolId_First(event, current) ==
    IF event.event_kind = "final_result" /\ FinalResultTaken(event) /\ IsNone(current)
    THEN event.tool_call_id
    ELSE current

\* final_result_tool_id after one event
FinalResultToolId(event, current) ==
    IF event.event_kind = "final_result" /\ FinalResultTaken(event)
    THEN event.tool_call_id
    ELSE current

\* mutant: finish is sent before the closing tool output
ClosingChunks_FinishFirst(final_id) ==
    <<FinishChunk>>
        \o (IF Truthy(final_id) THEN <<ToolOutputAvailableChunk(final_id.v, None)>> ELSE <<>>)

\* mutant: the closing tool output is never sent
ClosingChunks_NoClosing(final_id) == <<FinishChunk>>

\* the sends after the async for: the closing tool output, then finish
ClosingChunks(final_id) ==
    (IF Truthy(final_id) THEN <<ToolOutputAvailableChunk(final_id.v, None)>> ELSE <<>>)
        \o <<FinishChunk>>

(* ---------------------------- text_response ---------------------------- *)

\* the chunks text_response yields, in order
TextResponseChunks(message_id, text) ==
    <<StartChunk, StartStepChunk, ReasoningStartChunk(message_id),
      ReasoningDeltaChunk(message_id, text), FinishStepChunk, FinishChunk>>

(* ----------------------------- the request ----------------------------- *)

TextUIPart(text) == [type |-> "text", text |-> text]
FileUIPart == [type |-> "file", media_type |-> "image/png", url |-> "u"]
UIParts == {TextUIPart("a"), FileUIPart}

SeqsUpTo(S, n) == UNION {[1..k -> S] : k \in 0..n}

UIMessages == {[id |-> "u1", role |-> "user", parts |-> ps] : ps \in SeqsUpTo(UIParts, MaxParts)}

\* request bodies: the two triggers with every messages list, and three
\* bodies the schema rejects (no trigger, unknown trigger, missing field)
ValidBodies ==
    {[trigger |-> "submit-message", id |-> "c1", messages |-> ms, model |-> "gpt",
      webSearch |-> FALSE] : ms \in SeqsUpTo(UIMessages, MaxMessages)}
    \cup {[trigger |-> "regenerate-message", id |-> "c1", messages |-> ms,
           messageId |-> "u1"] : ms \in SeqsUpTo(UIMessages, MaxMessages)}
InvalidBodies ==
    {[id |-> "c1", messages |-> <<>>, model |-> "gpt", webSearch |-> FALSE],
     [trigger |-> "bogus", id |-> "c1", messages |-> <<>>],
     [trigger |-> "submit-message", id |-> "c1", messages |-> <<>>]}
Bodies == ValidBodies \cup InvalidBodies

\* request_data_schema.validate_json(body) raises no ValidationError
Validates(b) ==
    /\ "trigger" \in DOMAIN b
    /\ \/ b.trigger = "submit-message"
          /\ {"trigger", "id", "messages", "model", "webSearch"} \subseteq DOMAIN b
       \/ b.trigger = "regenerate-message"
          /\ {"trigger", "id", "messages", "messageId"} \subseteq DOMAIN b

\* the for part in message.parts loop: does it reach the else branch
HasNonTextPart(message) ==
    \E i \in 1..Len(message.parts) : message.parts[i].type # "text"

\* prompt after the loop has appended the text of every text part
PromptTexts(message) ==
    LET texts == SelectSeq(message.parts, LAMBDA part : part.type = "text")
    IN  [i \in 1..Len(texts) |-> texts[i].text]

\* mutant: the parts of the last message are not inspected
EndpointRoute_NoPartCheck(b) ==
    IF ~Validates(b) THEN "rejected"
    ELSE IF b.messages = <<>> THEN "no_messages"
    ELSE "chat_stream"

\* what chat_endpoint returns for a body
EndpointRoute(b) ==
    IF ~Validates(b) THEN "rejected"
    ELSE IF b.messages = <<>> THEN "no_messages"
    ELSE IF HasNonTextPart(b.messages[Len(b.messages)]) THEN "non_text"
    ELSE "chat_stream"

\* uuid4().hex: the n-th value drawn is fresh
UuidPool == <<"m1", "m2", "m3", "m4">>
uuid4_hex(n) == UuidPool[n]

(* ------------------------------- state -------------------------------- *)

\* the requests the server may be handling
Requests == {"r1", "r2"}

\* create_memory_object_stream() is called without a buffer size
max_buffer_size == 0

NoBody == [absent |-> TRUE]
NoResponse == [status_code |-> 0]

VARIABLES
    pending,               \* requests the client has not sent yet
    uuid_count,            \* number of uuid4() values drawn so far
    body,                  \* chat_endpoint: the body read from the request
    response,              \* chat_endpoint: the Response it returned
    text,                  \* text_response: its text argument
    user_prompt,           \* chat_stream: its user_prompt argument
    message_id,            \* message_id of text_response / chat_stream
    pc,                    \* where the response side of the request stands
    task,                  \* where the task running run_agent stands
    events,                \* the events the handler has taken so far
    final_result_tool_id,  \* event_stream_handler: final_result_tool_id
    outbox,                \* chunks the current arm of the handler has still to send
    sent,                  \* every chunk passed to send(), in call order
    sent_in_loop,          \* Len(sent) when the async for over events ended
    buffer,                \* memory object stream: buffered items
    waiting_senders,       \* memory object stream: items of suspended senders
    waiting_receivers,     \* memory object stream: number of suspended receivers
    open_send_channels,    \* memory object stream: open send streams
    container,             \* the item handed to the suspended receiver
    delivered,             \* chunks yielded by chat_stream / text_response
    written                \* what sse_messages yielded to the transport

endpointVars == <<pending, uuid_count, body, response, text, user_prompt, message_id>>
handlerVars == <<task, events, final_result_tool_id, outbox, sent, sent_in_loop>>
streamVars == <<buffer, waiting_senders, waiting_receivers, open_send_channels, container>>
outVars == <<delivered, written>>
vars == <<endpointVars, handlerVars, streamVars, outVars, pc>>

InitCommon ==
    /\ uuid_count = 0
    /\ body = [r \in Requests |-> NoBody]
    /\ response = [r \in Requests |-> NoResponse]
    /\ text = [r \in Requests |-> ""]
    /\ user_prompt = [r \in Requests |-> ""]
    /\ message_id = [r \in Requests |-> ""]
    /\ pc = [r \in Requests |-> "idle"]
    /\ task = [r \in Requests |-> "none"]
    /\ events = [r \in Requests |-> <<>>]
    /\ final_result_tool_id = [r \in Requests |-> None]
    /\ outbox = [r \in Requests |-> <<>>]
    /\ sent = [r \in Requests |-> <<>>]
    /\ sent_in_loop = [r \in Requests |-> 0]
    /\ buffer = [r \in Requests |-> <<>>]
    /\ waiting_senders = [r \in Requests |-> <<>>]
    /\ waiting_receivers = [r \in Requests |-> 0]
    /\ open_send_channels = [r \in Requests |-> 0]
    /\ container = [r \in Requests |-> <<>>]
    /\ delivered = [r \in Requests |-> <<>>]
    /\ written = [r \in Requests |-> <<>>]

\* one client request
Init == InitCommon /\ pending = {"r1"}

(* ---------------------------- chat_endpoint ---------------------------- *)

\* body = await request.body(), for a client that sends one of bodies
ReadBodyFrom(r, bodies) ==
    /\ r \in pending
    /\ \E b \in bodies :
        /\ body' = [body EXCEPT ![r] = b]
        /\ pending' = pending \ {r}
        /\ pc' = [pc EXCEPT ![r] = "received"]
    /\ UNCHANGED <<uuid_count, response, text, user_prompt, message_id>>
    /\ UNCHANGED <<handlerVars, streamVars, outVars>>

\* body = await request.body()
ReadBody(r) == ReadBodyFrom(r, Bodies)

\* mutant: both fallbacks report the same text
FallbackText_Same(route) == "Error: no messages provided"

\* the text argument chat_endpoint passes to text_response
FallbackText(route) ==
    IF route = "no_messages" THEN "Error: no messages provided"
    ELSE "Error: only text parts are supported yet"

\* chat_endpoint after the body is read: validate, then return a response
chat_endpoint(r) ==
    /\ pc[r] = "received"
    /\ LET route == EndpointRoute(body[r]) IN
        IF route = "rejected"
        THEN /\ response' = [response EXCEPT ![r] = [status_code |-> 422]]
             /\ pc' = [pc EXCEPT ![r] = "rejected"]
             /\ UNCHANGED <<uuid_count, text, user_prompt, message_id>>
        ELSE /\ uuid_count' = uuid_count + 1
             /\ IF route = "chat_stream"
                THEN /\ response' = [response EXCEPT ![r] =
                            [status_code |-> 200, stream |-> "chat_stream"]]
                     /\ user_prompt' = [user_prompt EXCEPT ![r] =
                            JoinStr(PromptTexts(body[r].messages[Len(body[r].messages)]), "\n")]
                     /\ pc' = [pc EXCEPT ![r] = "chat_stream"]
                     /\ UNCHANGED <<text, message_id>>
                ELSE /\ response' = [response EXCEPT ![r] =
                            [status_code |-> 200, stream |-> "text_response"]]
                     /\ message_id' = [message_id EXCEPT ![r] = uuid4_hex(uuid_count + 1)]
                     /\ text' = [text EXCEPT ![r] = FallbackText(route)]
                     /\ pc' = [pc EXCEPT ![r] = "text_response"]
                     /\ UNCHANGED user_prompt
    /\ body' = [body EXCEPT ![r] = NoBody]
    /\ UNCHANGED <<pending, handlerVars, streamVars, outVars>>

(* ------------------------ the response generators ---------------------- *)

\* yield message in chat_stream / text_response, and the yield of its dump
\* in sse_messages
Yield(r, chunk) ==
    /\ delivered' = [delivered EXCEPT ![r] = Append(@, chunk)]
    /\ written' = [written EXCEPT ![r] = Append(@, model_dump_json(chunk))]

\* text_response pulled once more: its next yield, or its end
text_response(r) ==
    /\ pc[r] = "text_response"
    /\ LET chunks == TextResponseChunks(message_id[r], text[r]) IN
        IF Len(delivered[r]) < Len(chunks)
        THEN Yield(r, chunks[Len(delivered[r]) + 1]) /\ UNCHANGED pc
        ELSE pc' = [pc EXCEPT ![r] = "exhausted"] /\ UNCHANGED outVars
    /\ UNCHANGED <<endpointVars, handlerVars, streamVars>>

\* chat_stream pulled for the first time: message id, stream, task
chat_stream_start(r) ==
    /\ pc[r] = "chat_stream"
    /\ uuid_count' = uuid_count + 1
    /\ message_id' = [message_id EXCEPT ![r] = uuid4_hex(uuid_count + 1)]
    /\ open_send_channels' = [open_send_channels EXCEPT ![r] = 1]
    /\ task' = [task EXCEPT ![r] = "run"]
    /\ pc' = [pc EXCEPT ![r] = "recv"]
    /\ UNCHANGED <<pending, body, response, text, user_prompt>>
    /\ UNCHANGED <<events, final_result_tool_id, outbox, sent, sent_in_loop>>
    /\ UNCHANGED <<buffer, waiting_senders, waiting_receivers, container, outVars>>

\* mutant: the suspended sender is released but its item is not taken
BufferAfterRelease_Drop(buf, senders) == buf

\* the buffer after receive_nowait has moved a suspended sender's item in
BufferAfterRelease(buf, senders) ==
    IF senders # <<>> THEN Append(buf, Head(senders)) ELSE buf

\* async for message in receive_stream: one receive that does not find the
\* receiver suspended yet
receive(r) ==
    /\ pc[r] = "recv"
    /\ LET buf == BufferAfterRelease(buffer[r], waiting_senders[r]) IN
        /\ waiting_senders' = [waiting_senders EXCEPT ![r] =
                IF @ # <<>> THEN Tail(@) ELSE @]
        /\ IF buf # <<>>
           THEN /\ buffer' = [buffer EXCEPT ![r] = Tail(buf)]
                /\ Yield(r, Head(buf))
                /\ UNCHANGED <<pc, waiting_receivers>>
           ELSE /\ buffer' = [buffer EXCEPT ![r] = buf]
                /\ UNCHANGED outVars
                /\ IF open_send_channels[r] = 0
                   THEN /\ pc' = [pc EXCEPT ![r] = "await_task"]
                        /\ UNCHANGED waiting_receivers
                   ELSE /\ pc' = [pc EXCEPT ![r] = "recv_wait"]
                        /\ waiting_receivers' = [waiting_receivers EXCEPT ![r] = 1]
    /\ UNCHANGED <<endpointVars, handlerVars, open_send_channels, container>>

\* the suspended receiver resumes: with the item handed to it, or with
\* EndOfStream, which ends the async for
receive_resume(r) ==
    /\ pc[r] = "recv_wait"
    /\ waiting_receivers[r] = 0
    /\ IF container[r] # <<>>
       THEN /\ Yield(r, container[r][1])
            /\ container' = [container EXCEPT ![r] = <<>>]
            /\ pc' = [pc EXCEPT ![r] = "recv"]
       ELSE /\ pc' = [pc EXCEPT ![r] = "await_task"]
            /\ UNCHANGED <<container, outVars>>
    /\ UNCHANGED <<endpointVars, handlerVars>>
    /\ UNCHANGED <<buffer, waiting_senders, waiting_receivers, open_send_channels>>

\* await task: returns once the task is done, re-raises what it raised
await_task(r) ==
    /\ pc[r] = "await_task"
    /\ task[r] \in {"done", "raised"}
    /\ pc' = [pc EXCEPT ![r] = IF task[r] = "done" THEN "exhausted" ELSE "error"]
    /\ UNCHANGED <<endpointVars, handlerVars, streamVars, outVars>>

\* mutant: the sentinel is yielded again on every further pull
sse_messages_done_Repeat(r) ==
    /\ pc[r] \in {"exhausted", "done"}
    /\ written' = [written EXCEPT ![r] = Append(@, DONE)]
    /\ pc' = [pc EXCEPT ![r] = "done"]
    /\ UNCHANGED <<endpointVars, handlerVars, streamVars, delivered>>

\* sse_messages after its async for: yield '[DONE]'
sse_messages_done(r) ==
    /\ pc[r] = "exhausted"
    /\ written' = [written EXCEPT ![r] = Append(@, DONE)]
    /\ pc' = [pc EXCEPT ![r] = "done"]
    /\ UNCHANGED <<endpointVars, handlerVars, streamVars, delivered>>

(* ------------------------------ run_agent ------------------------------ *)

\* the handler is not suspended inside send and has finished its current arm
HandlerIdle(r) == outbox[r] = <<>> /\ waiting_senders[r] = <<>>

\* agent.run(user_prompt, ...) is called when the task first runs; nothing
\* reads user_prompt afterwards, so the model lets go of its value
AgentRunCalled(r) ==
    user_prompt' = [user_prompt EXCEPT ![r] = ""]

\* the task starts: agent.run is called and calls event_stream_handler,
\* which reaches its first send
handler_start(r) ==
    /\ task[r] = "run"
    /\ task' = [task EXCEPT ![r] = "handler"]
    /\ final_result_tool_id' = [final_result_tool_id EXCEPT ![r] = None]
    /\ outbox' = [outbox EXCEPT ![r] = <<StartChunk>>]
    /\ AgentRunCalled(r)
    /\ UNCHANGED <<events, sent, sent_in_loop>>
    /\ UNCHANGED <<pending, uuid_count, body, response, text, message_id>>
    /\ UNCHANGED <<streamVars, outVars, pc>>

\* mutant: the stream buffers without limit, send never suspends
send_Unbounded(r) ==
    /\ task[r] \in {"handler", "closing"}
    /\ outbox[r] # <<>>
    /\ LET chunk == Head(outbox[r]) IN
        /\ sent' = [sent EXCEPT ![r] = Append(@, chunk)]
        /\ outbox' = [outbox EXCEPT ![r] = Tail(@)]
        /\ IF waiting_receivers[r] > 0
           THEN /\ container' = [container EXCEPT ![r] = <<chunk>>]
                /\ waiting_receivers' = [waiting_receivers EXCEPT ![r] = 0]
                /\ UNCHANGED <<buffer, waiting_senders>>
           ELSE /\ buffer' = [buffer EXCEPT ![r] = Append(@, chunk)]
                /\ UNCHANGED <<container, waiting_receivers, waiting_senders>>
    /\ UNCHANGED <<task, events, final_result_tool_id, sent_in_loop>>
    /\ UNCHANGED <<endpointVars, open_send_channels, outVars, pc>>

\* await send_stream.send(chunk): hand the chunk to a suspended receiver,
\* else buffer it if there is room, else suspend until a receive takes it
send(r) ==
    /\ task[r] \in {"handler", "closing"}
    /\ outbox[r] # <<>>
    /\ waiting_senders[r] = <<>>
    /\ LET chunk == Head(outbox[r]) IN
        /\ sent' = [sent EXCEPT ![r] = Append(@, chunk)]
        /\ outbox' = [outbox EXCEPT ![r] = Tail(@)]
        /\ IF waiting_receivers[r] > 0
           THEN /\ container' = [container EXCEPT ![r] = <<chunk>>]
                /\ waiting_receivers' = [waiting_receivers EXCEPT ![r] = 0]
                /\ UNCHANGED <<buffer, waiting_senders>>
           ELSE IF Len(buffer[r]) < max_buffer_size
           THEN /\ buffer' = [buffer EXCEPT ![r] = Append(@, chunk)]
                /\ UNCHANGED <<container, waiting_receivers, waiting_senders>>
           ELSE /\ waiting_senders' = [waiting_senders EXCEPT ![r] = <<chunk>>]
                /\ UNCHANGED <<container, waiting_receivers, buffer>>
    /\ UNCHANGED <<task, events, final_result_tool_id, sent_in_loop>>
    /\ UNCHANGED <<endpointVars, open_send_channels, outVars, pc>>

\* async for event in events: an agent whose events are among alphabet hands
\* over one more event and the handler enters the arm that matches it
next_event_from(r, alphabet) ==
    /\ task[r] = "handler"
    /\ HandlerIdle(r)
    /\ Len(events[r]) < MaxEvents
    /\ \E event \in alphabet :
        /\ events' = [events EXCEPT ![r] = Append(@, event)]
        /\ final_result_tool_id' = [final_result_tool_id EXCEPT ![r] =
                FinalResultToolId(event, @)]
        /\ outbox' = [outbox EXCEPT ![r] = EventChunks(event, message_id[r])]
    /\ UNCHANGED <<task, sent, sent_in_loop>>
    /\ UNCHANGED <<endpointVars, streamVars, outVars, pc>>

\* async for event in events
next_event(r) == next_event_from(r, AgentStreamEvents)

\* mutant: final_result_tool_id is one variable shared by all sessions
events_exhausted_Shared(r) ==
    /\ task[r] = "handler"
    /\ HandlerIdle(r)
    /\ task' = [task EXCEPT ![r] = "closing"]
    /\ sent_in_loop' = [sent_in_loop EXCEPT ![r] = Len(sent[r])]
    /\ outbox' = [outbox EXCEPT ![r] =
            IF \E q \in Requests : ~IsNone(final_result_tool_id[q])
            THEN ClosingChunks(final_result_tool_id[
                    CHOOSE q \in Requests : ~IsNone(final_result_tool_id[q])])
            ELSE ClosingChunks(None)]
    /\ UNCHANGED <<events, final_result_tool_id, sent>>
    /\ UNCHANGED <<endpointVars, streamVars, outVars, pc>>

\* the events are exhausted: the handler leaves the loop for its last sends
events_exhausted(r) ==
    /\ task[r] = "handler"
    /\ HandlerIdle(r)
    /\ task' = [task EXCEPT ![r] = "closing"]
    /\ sent_in_loop' = [sent_in_loop EXCEPT ![r] = Len(sent[r])]
    /\ outbox' = [outbox EXCEPT ![r] = ClosingChunks(final_result_tool_id[r])]
    /\ UNCHANGED <<events, final_result_tool_id, sent>>
    /\ UNCHANGED <<endpointVars, streamVars, outVars, pc>>

\* the handler returns, agent.run returns, run_agent closes the send stream
\* (which resumes a suspended receiver) and the task is done
run_agent_return(r) ==
    /\ task[r] = "closing"
    /\ HandlerIdle(r)
    /\ task' = [task EXCEPT ![r] = "done"]
    /\ open_send_channels' = [open_send_channels EXCEPT ![r] = @ - 1]
    /\ waiting_receivers' = [waiting_receivers EXCEPT ![r] = 0]
    /\ UNCHANGED <<events, final_result_tool_id, outbox, sent, sent_in_loop>>
    /\ UNCHANGED <<endpointVars, buffer, waiting_senders, container, outVars, pc>>

\* agent.run raises (before the handler is called, from the event iterator,
\* or after the handler returned): run_agent ends at line 144
run_agent_raise(r) ==
    /\ \/ task[r] = "run"
       \/ task[r] \in {"handler", "closing"} /\ HandlerIdle(r)
    /\ task' = [task EXCEPT ![r] = "raised"]
    /\ AgentRunCalled(r)
    /\ UNCHANGED <<events, final_result_tool_id, outbox, sent, sent_in_loop>>
    /\ UNCHANGED <<pending, uuid_count, body, response, text, message_id>>
    /\ UNCHANGED <<streamVars, outVars, pc>>

(* ----------------------------- disconnect ----------------------------- *)

\* the client disconnects and the transport cancels the consumer where it is
\* suspended: the generators are closed, a suspended receive leaves the
\* stream's waiting receivers and loses an item already handed to it.
\* chat_stream has no finally clause: the task is not cancelled and neither
\* end of the stream is closed.
disconnect(r) ==
    /\ pc[r] \in {"text_response", "chat_stream", "recv", "recv_wait", "await_task",
                  "exhausted"}
    /\ pc' = [pc EXCEPT ![r] = "cancelled"]
    /\ waiting_receivers' = [waiting_receivers EXCEPT ![r] = 0]
    /\ container' = [container EXCEPT ![r] = <<>>]
    /\ UNCHANGED <<endpointVars, handlerVars, outVars>>
    /\ UNCHANGED <<buffer, waiting_senders, open_send_channels>>

(* --------------------------- specifications ---------------------------- *)

Next ==
    \E r \in Requests :
        \/ ReadBody(r)
        \/ chat_endpoint(r)
        \/ text_response(r)
        \/ chat_stream_start(r)
        \/ receive(r)
        \/ receive_resume(r)
        \/ await_task(r)
        \/ sse_messages_done(r)
        \/ handler_start(r)
        \/ send(r)
        \/ next_event(r)
        \/ events_exhausted(r)
        \/ run_agent_return(r)
        \/ run_agent_raise(r)
        \/ disconnect(r)

Spec == Init /\ [][Next]_vars

\* The event loop runs every task that can run, the transport keeps pulling
\* the response while the client is connected, and a run of the agent ends:
\* it calls the handler, ends the event sequence, returns or raises.  The
\* client is free to disconnect or not.
Fairness ==
    \A r \in Requests :
        /\ WF_vars(chat_endpoint(r))
        /\ WF_vars(text_response(r))
        /\ WF_vars(chat_stream_start(r))
        /\ WF_vars(receive(r))
        /\ WF_vars(receive_resume(r))
        /\ WF_vars(await_task(r))
        /\ WF_vars(sse_messages_done(r))
        /\ WF_vars(send(r))
        /\ WF_vars(handler_start(r) \/ events_exhausted(r)
                     \/ run_agent_return(r) \/ run_agent_raise(r))

FairSpec == Spec /\ Fairness

\* Two requests handled concurrently.  Each client sends a body with one text
\* message or with no message, and each agent draws its events from two:
\* started text, and a final result that names a tool call.
TwoBodies ==
    {[trigger |-> "submit-message", id |-> "c1", messages |-> ms, model |-> "gpt",
      webSearch |-> FALSE] :
        ms \in {<<>>, <<[id |-> "u1", role |-> "user", parts |-> <<TextUIPart("a")>>]>>}}

TwoEvents ==
    {PartStartEvent(TextPart("Hi")),
     FinalResultEvent(Str("calc"), Str("t1"))}

InitTwo == InitCommon /\ pending = Requests

NextTwo ==
    \E r \in Requests :
        \/ ReadBodyFrom(r, TwoBodies)
        \/ chat_endpoint(r)
        \/ text_response(r)
        \/ chat_stream_start(r)
        \/ receive(r)
        \/ receive_resume(r)
        \/ await_task(r)
        \/ sse_messages_done(r)
        \/ handler_start(r)
        \/ send(r)
        \/ next_event_from(r, TwoEvents)
        \/ events_exhausted(r)
        \/ run_agent_return(r)
        \/ run_agent_raise(r)
        \/ disconnect(r)

SpecTwo == InitTwo /\ [][NextTwo]_vars

(* ------------------------------- claims -------------------------------- *)

\* which generator the response of r streams: "text_response", "chat_stream",
\* or "none" (no response yet, or the 422)
Route(r) == IF response[r].status_code = 200 THEN response[r].stream ELSE "none"

\* the chunk sequence of r has been pulled to its end without an error
Exhausted(r) == pc[r] \in {"exhausted", "done"}

IsPrefix(a, b) == Len(a) <= Len(b) /\ \A i \in 1..Len(a) : a[i] = b[i]

\* C1: once the chunk sequence of a response is exhausted (fallback path, or
\* agent path whose run returned), it holds exactly one start chunk, its first
\* chunk, and exactly one finish chunk, its last chunk.
C1_StartFirstFinishLast ==
    \A r \in Requests :
        Exhausted(r) =>
            LET d == delivered[r] IN
                /\ Len(d) >= 2
                /\ \A i \in 1..Len(d) : (d[i].type = "start") <=> (i = 1)
                /\ \A i \in 1..Len(d) : (d[i].type = "finish") <=> (i = Len(d))

\* an agent-path response with a final-result id has been streamed to its end
C1_Witness ==
    \E r \in Requests :
        /\ pc[r] = "done"
        /\ Route(r) = "chat_stream"
        /\ Truthy(final_result_tool_id[r])
        /\ Len(events[r]) = MaxEvents

StartKindOf(type) ==
    CASE type = "text-delta" -> "text-start"
      [] type = "reasoning-delta" -> "reasoning-start"
      [] OTHER -> "tool-input-start"

ChunkId(chunk) ==
    IF chunk.type \in {"text-start", "text-delta", "reasoning-start", "reasoning-delta"}
    THEN chunk.id
    ELSE chunk.tool_call_id

\* C2: every id carried by a text-delta, reasoning-delta, tool-input-delta or
\* tool-output-available chunk was introduced earlier in the same stream by
\* the start chunk of its family with the same id.
C2_StartBeforeUse ==
    \A r \in Requests :
        \A i \in 1..Len(delivered[r]) :
            LET c == delivered[r][i] IN
                c.type \in {"text-delta", "reasoning-delta", "tool-input-delta",
                            "tool-output-available"}
                => \E j \in 1..(i - 1) :
                      /\ delivered[r][j].type = StartKindOf(c.type)
                      /\ ChunkId(delivered[r][j]) = ChunkId(c)

\* C3: once a tool-output-available chunk was delivered for a tool-call id, no
\* tool-input-start or tool-input-delta chunk for that id is delivered later.
C3_NoToolStateRegression ==
    \A r \in Requests :
        \A i, j \in 1..Len(delivered[r]) :
            /\ i < j
            /\ delivered[r][i].type = "tool-output-available"
            /\ delivered[r][j].type \in {"tool-input-start", "tool-input-delta"}
            => delivered[r][j].tool_call_id # delivered[r][i].tool_call_id

\* C4: whether the agent invocation returned or raised, once the producing
\* task has ended its send stream is closed, so the receiver is not left
\* waiting on a stream nobody will close.
C4_ClosedAfterAgent ==
    \A r \in Requests :
        task[r] \in {"done", "raised"} => open_send_channels[r] = 0

\* C5: if the agent invocation raises, every chunk sent before the failure is
\* delivered in order and then the failure propagates out of chat_stream
\* (unless the client has disconnected meanwhile).
C5_FailurePropagates ==
    \A r \in Requests :
        (task[r] = "raised") ~>
            \/ pc[r] = "error" /\ delivered[r] = sent[r]
            \/ pc[r] = "cancelled"

\* C6: what chat_stream has yielded is at every point a prefix of what the
\* translator sent, in the same order; what sse_messages has yielded is the
\* dump of each of those chunks in order; when the run returned and the
\* stream is exhausted, every chunk sent has been yielded.
C6_FifoDelivery ==
    \A r \in Requests :
        Route(r) = "chat_stream" =>
            /\ IsPrefix(delivered[r], sent[r])
            /\ Len(written[r]) = Len(delivered[r]) + (IF pc[r] = "done" THEN 1 ELSE 0)
            /\ \A i \in 1..Len(delivered[r]) : written[r][i] = model_dump_json(sent[r][i])
            /\ Exhausted(r) => delivered[r] = sent[r]

\* the producer is suspended in send after the consumer yielded some chunks
C6_Witness ==
    \E r \in Requests :
        /\ waiting_senders[r] # <<>>
        /\ Len(delivered[r]) >= 3
        /\ Len(sent[r]) = Len(delivered[r]) + 1

\* C7: after the events are exhausted the translator sends, when a
\* final-result id was recorded, one tool-output-available chunk with that id
\* and output None and then finish, and otherwise finish alone; the single
\* event final-result-detected(t1, calc) yields start, tool-input-start(t1,
\* calc), tool-output-available(t1, None), finish.
C7_Closing ==
    \A r \in Requests :
        /\ task[r] = "done" =>
              LET n == sent_in_loop[r]
                  s == sent[r]
                  id == final_result_tool_id[r]
              IN  IF ~IsNone(id)
                  THEN /\ Len(s) = n + 2
                       /\ s[n + 1] = ToolOutputAvailableChunk(id.v, None)
                       /\ s[n + 2] = FinishChunk
                  ELSE /\ Len(s) = n + 1
                       /\ s[n + 1] = FinishChunk
        /\ (Exhausted(r) /\ events[r] = <<FinalResultEvent(Str("calc"), Str("t1"))>>) =>
              delivered[r] = <<StartChunk, ToolInputStartChunk("t1", "calc"),
                               ToolOutputAvailableChunk("t1", None), FinishChunk>>

\* the run returned after a final-result event that recorded an id
C7_Witness ==
    \E r \in Requests :
        /\ task[r] = "done"
        /\ ~IsNone(final_result_tool_id[r])
        /\ sent_in_loop[r] >= 2

\* the last message of a body
LastMessage(b) == b.messages[Len(b.messages)]

\* chat_endpoint returns for request r, whose body satisfies P
Returns(r) == pc[r] = "received" /\ pc'[r] # "received"

\* C8: a valid request with no messages is answered with exactly start,
\* start-step, reasoning-start(id), reasoning-delta(id, "Error: no messages
\* provided"), finish-step, finish; a valid request whose last message has a
\* non-text part with the same six chunks and the text "Error: only text parts
\* are supported yet".
C8_FallbackStream ==
    /\ [][\A r \in Requests :
            (Returns(r) /\ Validates(body[r])) =>
                /\ body[r].messages = <<>> =>
                      Route(r)' = "text_response" /\ text'[r] = "Error: no messages provided"
                /\ (/\ body[r].messages # <<>>
                    /\ \E i \in 1..Len(LastMessage(body[r]).parts) :
                          LastMessage(body[r]).parts[i].type # "text") =>
                      /\ Route(r)' = "text_response"
                      /\ text'[r] = "Error: only text parts are supported yet"]_vars
    /\ [](\A r \in Requests :
            (Route(r) = "text_response" /\ Exhausted(r)) =>
                delivered[r] = <<StartChunk, StartStepChunk,
                                 ReasoningStartChunk(message_id[r]),
                                 ReasoningDeltaChunk(message_id[r], text[r]),
                                 FinishStepChunk, FinishChunk>>)

\* the fallback stream for a non-text part has been streamed to its end
C8_Witness ==
    \E r \in Requests :
        /\ Route(r) = "text_response"
        /\ pc[r] = "done"
        /\ text[r] = "Error: only text parts are supported yet"

\* C9: a request that fails validation is answered with a 422 and no chunk
\* stream, and neither it nor a request taking the fallback path (no messages,
\* or a non-text part in the last message) ever gets a producing task, a
\* stream or an agent event.
C9_AgentOnlyOnNormalPath ==
    /\ [][\A r \in Requests :
            Returns(r) =>
                /\ ~Validates(body[r]) =>
                      response'[r] = [status_code |-> 422] /\ pc'[r] = "rejected"
                /\ (/\ Validates(body[r])
                    /\ \/ body[r].messages = <<>>
                       \/ \E i \in 1..Len(LastMessage(body[r]).parts) :
                             LastMessage(body[r]).parts[i].type # "text") =>
                      Route(r)' = "text_response"]_vars
    /\ [](\A r \in Requests :
            /\ Route(r) # "chat_stream" =>
                  /\ task[r] = "none"
                  /\ open_send_channels[r] = 0
                  /\ events[r] = <<>>
                  /\ sent[r] = <<>>
            /\ pc[r] = "rejected" => delivered[r] = <<>> /\ written[r] = <<>>)

\* a request has been rejected with a 422
C9_Witness ==
    \E r \in Requests : pc[r] = "rejected" /\ response[r].status_code = 422

\* C10: the sentinel is the last thing written and is written at most once,
\* it is written only when the chunk sequence is exhausted (every chunk of the
\* fallback stream, or every chunk the translator sent in a run that
\* returned, has been written before it), and a finished response has it.
C10_DoneOnceLast ==
    \A r \in Requests :
        /\ \A i \in 1..Len(written[r]) :
              IsDONE(written[r][i]) <=> (i = Len(written[r]) /\ pc[r] = "done")
        /\ pc[r] = "done" =>
              /\ Len(written[r]) = Len(delivered[r]) + 1
              /\ Route(r) = "text_response" => Len(delivered[r]) = 6
              /\ Route(r) = "chat_stream" =>
                    task[r] = "done" /\ Len(delivered[r]) = Len(sent[r])

\* the sentinel has been written after the chunks of an agent-path response
C10_Witness ==
    \E r \in Requests :
        /\ Route(r) = "chat_stream"
        /\ Len(written[r]) >= 3
        /\ IsDONE(written[r][Len(written[r])])

\* the task of r has been created and has neither returned nor raised
InFlight(r) == task[r] \in {"run", "handler", "closing"}

\* C11: when the consumer is cancelled while the agent invocation is in
\* flight, the producing task comes to an end: it is not left alive forever.
C11_TaskEndsAfterDisconnect ==
    \A r \in Requests :
        (pc[r] = "cancelled" /\ InFlight(r)) ~> ~InFlight(r)

\* C12: the chunks the stream holds (buffered, or held by a suspended send)
\* are never more than the buffer size plus one, whatever the number of
\* events; with the one chunk that may have been handed to the suspended
\* receiver they are, while the client is connected, exactly the chunks sent
\* and not yet yielded, so these never exceed the buffer size plus two.
C12_Backpressure ==
    \A r \in Requests :
        LET held == Len(buffer[r]) + Len(waiting_senders[r]) IN
            /\ held <= max_buffer_size + 1
            /\ Len(buffer[r]) <= max_buffer_size
            /\ Len(container[r]) <= 1
            /\ (Route(r) = "chat_stream" /\ pc[r] # "cancelled") =>
                  /\ Len(sent[r]) = Len(delivered[r]) + held + Len(container[r])
                  /\ Len(sent[r]) - Len(delivered[r]) <= max_buffer_size + 2

\* the producer is suspended in send in the middle of an arm after the whole
\* event sequence was taken
C12_Witness ==
    \E r \in Requests :
        /\ waiting_senders[r] # <<>>
        /\ outbox[r] # <<>>
        /\ Len(events[r]) = MaxEvents

\* the tool-call ids of the final-result events among evs
FinalResultIds(evs) ==
    {evs[i].tool_call_id.v : i \in {j \in 1..Len(evs) : evs[j].event_kind = "final_result"}}

\* C13: with two requests in progress each session has its own message id,
\* the chunks yielded on a response are a prefix of those its own handler
\* sent, every text or reasoning chunk carries the session's own message id,
\* every tool chunk an id of the session's own events, and a session that
\* recorded no final-result id sends no closing tool output, whatever the
\* other session recorded.
C13_RequestIsolation ==
    \A r \in Requests :
        Route(r) = "chat_stream" =>
            /\ \A q \in Requests \ {r} : message_id[r] # "" => message_id[q] # message_id[r]
            /\ IsPrefix(delivered[r], sent[r])
            /\ \A i \in 1..Len(sent[r]) :
                LET c == sent[r][i] IN
                    /\ "id" \in DOMAIN c => c.id = message_id[r]
                    /\ "tool_call_id" \in DOMAIN c => c.tool_call_id \in FinalResultIds(events[r])
            /\ (task[r] = "done" /\ FinalResultIds(events[r]) = {}) =>
                  /\ Len(sent[r]) = sent_in_loop[r] + 1
                  /\ \A i \in 1..Len(sent[r]) : sent[r][i].type # "tool-output-available"

\* both responses were streamed to their end, one session having recorded a
\* final-result id and the other none
C13_Witness ==
    \E r, q \in Requests :
        /\ pc[r] = "done" /\ pc[q] = "done"
        /\ Route(r) = "chat_stream" /\ Route(q) = "chat_stream"
        /\ ~IsNone(final_result_tool_id[r])
        /\ IsNone(final_result_tool_id[q])
        /\ Len(events[q]) >= 1

\* the session of r was run to its end on exactly the event sequence evs
RanOn(r, evs) == Route(r) = "chat_stream" /\ task[r] = "done" /\ events[r] = evs

\* C14: when the agent emits only part-started(text, content), the whole
\* output is start, text-start(id), then text-delta(id, content) if and only
\* if the content is not empty, then finish: for "Hi" it is start,
\* text-start(id), text-delta(id, "Hi"), finish, and for empty content start,
\* text-start(id), finish.
C14_TextStartThenDeltaIfContent ==
    \A r \in Requests :
        \A content \in {"", "Hi"} :
            RanOn(r, <<PartStartEvent(TextPart(content))>>) =>
                sent[r] = <<StartChunk, TextStartChunk(message_id[r])>>
                            \o (IF content # ""
                                THEN <<TextDeltaChunk(message_id[r], content)>>
                                ELSE <<>>)
                            \o <<FinishChunk>>

\* the handler of r takes its next event in this step
TakesEvent(r) == task[r] = "handler" /\ Len(events'[r]) = Len(events[r]) + 1

\* the event taken in this step
Taken(r) == events'[r][Len(events'[r])]

\* the last event the handler of r took, which it is still translating
LastEvent(r) == events[r][Len(events[r])]

\* an optional string is present: neither None nor empty
Present(x) == x # None /\ x # Str("")

\* the handler goes on with the loop: no error, no chunk, no state change
NoOp(r) ==
    /\ outbox'[r] = <<>>
    /\ task'[r] = "handler"
    /\ final_result_tool_id'[r] = final_result_tool_id[r]
    /\ sent'[r] = sent[r]

\* C15: on a final-result event the handler records the tool-call id and
\* sends tool-input-start(toolCallId, toolName) exactly when both are present;
\* when either is absent or empty it sends no chunk and the recorded id stays
\* what it was.
C15_FinalResult ==
    [][\A r \in Requests :
        (TakesEvent(r) /\ Taken(r).event_kind = "final_result") =>
            LET event == Taken(r) IN
                IF Present(event.tool_call_id) /\ Present(event.tool_name)
                THEN /\ final_result_tool_id'[r] = event.tool_call_id
                     /\ outbox'[r] = <<ToolInputStartChunk(event.tool_call_id.v,
                                                           event.tool_name.v)>>
                     /\ task'[r] = "handler"
                ELSE NoOp(r)]_vars

\* a final result t2 was recorded, and a later final result without a tool
\* name left it recorded and sent nothing
C15_Witness ==
    \E r \in Requests :
        /\ task[r] = "handler"
        /\ events[r] = <<FinalResultEvent(Str("calc"), Str("t2")),
                         FinalResultEvent(None, Str("t1"))>>
        /\ final_result_tool_id[r] = Str("t2")
        /\ outbox[r] = <<>>
        /\ sent[r] = <<StartChunk, ToolInputStartChunk("t2", "calc")>>

\* the events the handler has no translation for
Ignored(event) ==
    \/ event.event_kind = "function_tool_call"
    \/ event.event_kind = "other"
    \/ event.event_kind = "part_start" /\ event.part.part_kind = "file"
    \/ event.event_kind = "part_delta" /\ event.delta.part_delta_kind = "other"

RECURSIVE Translate(_, _)
\* the chunks the handler sends in its loop for the event sequence evs
Translate(evs, id) ==
    IF evs = <<>> THEN <<>>
    ELSE EventChunks(Head(evs), id) \o Translate(Tail(evs), id)

RECURSIVE Recorded(_, _)
\* the final-result id recorded after the event sequence evs
Recorded(evs, current) ==
    IF evs = <<>> THEN current
    ELSE Recorded(Tail(evs), FinalResultToolId(Head(evs), current))

\* evs without its ignored events
Kept(evs) == SelectSeq(evs, LAMBDA event : ~Ignored(event))

\* C16: a function-tool-call event and any event, part or delta of a shape
\* the handler does not know produce no chunk, raise no error and leave the
\* recorded final-result id unchanged; the chunks of a session and its
\* recorded id are those of its event sequence with the ignored events left
\* out.
C16_IgnoredEvents ==
    /\ [][\A r \in Requests : (TakesEvent(r) /\ Ignored(Taken(r))) => NoOp(r)]_vars
    /\ [](\A r \in Requests :
            task[r] \in {"handler", "closing", "done"} =>
                LET in_loop == IF task[r] = "handler" THEN sent[r] \o outbox[r]
                               ELSE SubSeq(sent[r], 1, sent_in_loop[r])
                IN  /\ in_loop = <<StartChunk>> \o Translate(Kept(events[r]), message_id[r])
                    /\ final_result_tool_id[r] = Recorded(Kept(events[r]), None))

\* an ignored event was followed by a started text part, which was translated
C16_Witness ==
    \E r \in Requests :
        /\ task[r] = "done"
        /\ Len(events[r]) = 2
        /\ events[r][1].event_kind = "function_tool_call"
        /\ events[r][2] = PartStartEvent(TextPart("Hi"))
        /\ sent[r] = <<StartChunk, TextStartChunk(message_id[r]),
                       TextDeltaChunk(message_id[r], "Hi"), FinishChunk>>

\* serialize(args): text as it is, anything else JSON-encoded
Serialize(args) == IF args.py = "str" THEN args.v ELSE json_dumps(args.v)

\* tool-input-start, then one tool-input-delta if and only if args is present
ToolInputChunks(tool_call_id, tool_name, args) ==
    <<ToolInputStartChunk(tool_call_id, tool_name)>>
        \o (IF args = None THEN <<>>
            ELSE <<ToolInputDeltaChunk(tool_call_id, Serialize(args))>>)

\* C17: a builtin-tool-call event and a started tool-call or builtin-tool-call
\* part are both translated to tool-input-start(toolCallId, toolName) followed
\* by one tool-input-delta(toolCallId, serialize(args)) if and only if args is
\* present, textual args as they are and other args JSON-encoded; for the same
\* payload the two event kinds give the same chunks.
C17_BuiltinToolCallAsStartedPart ==
    /\ [][\A r \in Requests :
            TakesEvent(r) =>
                LET event == Taken(r) IN
                    /\ event.event_kind = "builtin_tool_call" =>
                          /\ outbox'[r] = ToolInputChunks(event.part.tool_call_id,
                                                event.part.tool_name, event.part.args)
                          /\ task'[r] = "handler"
                    /\ (/\ event.event_kind = "part_start"
                        /\ event.part.part_kind \in {"tool-call", "builtin-tool-call"}) =>
                          /\ outbox'[r] = ToolInputChunks(event.part.tool_call_id,
                                                event.part.tool_name, event.part.args)
                          /\ task'[r] = "handler"]_vars
    /\ [](\A args \in ArgsValues :
            /\ EventChunks(BuiltinToolCallEvent(BuiltinToolCallPart("calc", "t1", args)), "m1")
                = EventChunks(PartStartEvent(ToolCallPart("calc", "t1", args)), "m1")
            /\ EventChunks(BuiltinToolCallEvent(BuiltinToolCallPart("calc", "t1", args)), "m1")
                = EventChunks(PartStartEvent(BuiltinToolCallPart("calc", "t1", args)), "m1"))

\* a started tool-call part and a builtin-tool-call event with the same
\* structured args were translated to the same two chunks, the args as JSON
C17_Witness ==
    \E r \in Requests :
        /\ task[r] = "handler"
        /\ events[r] = <<PartStartEvent(ToolCallPart("calc", "t1",
                                Dict(<< <<"location", "Berlin">> >>))),
                         BuiltinToolCallEvent(BuiltinToolCallPart("calc", "t1",
                                Dict(<< <<"location", "Berlin">> >>)))>>
        /\ outbox[r] = <<>>
        /\ waiting_senders[r] = <<>>
        /\ sent[r] = <<StartChunk,
                       ToolInputStartChunk("t1", "calc"),
                       ToolInputDeltaChunk("t1", "{\"location\": \"Berlin\"}"),
                       ToolInputStartChunk("t1", "calc"),
                       ToolInputDeltaChunk("t1", "{\"location\": \"Berlin\"}")>>

\* C18: an args delta of a tool call whose id is absent is sent as
\* tool-input-delta with the empty string as id; when the id is present the
\* delta carries it; no chunk is sent when the args delta is absent.
C18_ArgsDeltaWithoutId ==
    [][\A r \in Requests :
        (/\ TakesEvent(r)
         /\ Taken(r).event_kind = "part_delta"
         /\ Taken(r).delta.part_delta_kind = "tool_call") =>
            LET delta == Taken(r).delta
                id == IF Present(delta.tool_call_id) THEN delta.tool_call_id.v ELSE ""
            IN  /\ task'[r] = "handler"
                /\ outbox'[r] = IF delta.args_delta = None THEN <<>>
                                ELSE <<ToolInputDeltaChunk(id, Serialize(delta.args_delta))>>]_vars

\* an args delta without a tool-call id was sent with the empty id, after one
\* with an id
C18_Witness ==
    \E r \in Requests :
        /\ task[r] = "handler"
        /\ events[r] = <<PartDeltaEvent(ToolCallPartDelta(Str("{\"location\""), Str("t1"))),
                         PartDeltaEvent(ToolCallPartDelta(Str("{\"location\""), None))>>
        /\ sent[r] = <<StartChunk, ToolInputDeltaChunk("t1", "{\"location\""),
                       ToolInputDeltaChunk("", "{\"location\"")>>

\* C19: a thinking delta is sent as reasoning-delta(messageId, contentDelta)
\* if and only if the delta is not empty; an empty one sends no chunk, raises
\* no error and changes no state.
C19_ThinkingDelta ==
    [][\A r \in Requests :
        (/\ TakesEvent(r)
         /\ Taken(r).event_kind = "part_delta"
         /\ Taken(r).delta.part_delta_kind = "thinking") =>
            LET content_delta == Taken(r).delta.content_delta IN
                IF Present(content_delta)
                THEN /\ outbox'[r] = <<ReasoningDeltaChunk(message_id[r], content_delta.v)>>
                     /\ task'[r] = "handler"
                     /\ final_result_tool_id'[r] = final_result_tool_id[r]
                ELSE NoOp(r)]_vars

\* a non-empty thinking delta was sent, and an empty one after it left nothing
\* to send
C19_Witness ==
    \E r \in Requests :
        /\ task[r] = "handler"
        /\ events[r] = <<PartDeltaEvent(ThinkingPartDelta(Str("hm"))),
                         PartDeltaEvent(ThinkingPartDelta(Str("")))>>
        /\ outbox[r] = <<>>
        /\ sent[r] = <<StartChunk, ReasoningDeltaChunk(message_id[r], "hm")>>

\* C20: a function-tool-result event is sent as exactly one
\* tool-output-available(toolCallId, content), for a tool return and for a
\* retry prompt alike: the chunk of a retry prompt is the chunk of a return
\* with the same id and content.
C20_ToolResultOrRetry ==
    /\ [][\A r \in Requests :
            (TakesEvent(r) /\ Taken(r).event_kind = "function_tool_result") =>
                LET result == Taken(r).result IN
                    /\ result.part_kind \in {"tool-return", "retry-prompt"}
                    /\ outbox'[r] = <<[type |-> "tool-output-available",
                                       tool_call_id |-> result.tool_call_id,
                                       output |-> result.content,
                                       provider_executed |-> None, dynamic |-> None,
                                       preliminary |-> None]>>
                    /\ task'[r] = "handler"]_vars
    /\ [](EventChunks(FunctionToolResultEvent(RetryPromptPart("calc", "t1", Str("42"))), "m1")
            = EventChunks(FunctionToolResultEvent(ToolReturnPart("calc", "t1", Str("42"))), "m1"))

\* a tool return and a retry prompt with the same id and content were sent as
\* the same chunk
C20_Witness ==
    \E r \in Requests :
        /\ task[r] = "handler"
        /\ events[r] = <<FunctionToolResultEvent(ToolReturnPart("calc", "t1", Str("42"))),
                         FunctionToolResultEvent(RetryPromptPart("calc", "t1", Str("42")))>>
        /\ sent[r] = <<StartChunk, ToolOutputAvailableChunk("t1", Str("42")),
                       ToolOutputAvailableChunk("t1", Str("42"))>>

\* the positions in evs of the final-result events with both fields present
FinalResults(evs) ==
    {i \in 1..Len(evs) :
        /\ evs[i].event_kind = "final_result"
        /\ Present(evs[i].tool_call_id)
        /\ Present(evs[i].tool_name)}

\* the largest element of a non-empty set of numbers
Max(S) == CHOOSE i \in S : \A j \in S : j <= i

\* the number of positions of seq whose element satisfies Test
Count(seq, Test(_)) == Cardinality({i \in 1..Len(seq) : Test(seq[i])})

\* C21: in a session run to its end, every final-result event with both fields
\* present has sent its own tool-input-start, and what follows the event loop
\* is one closing tool-output-available(output = None) carrying the tool-call
\* id of the last such event, then finish; an id recorded earlier and replaced
\* gets no closing chunk. A session with no such event sends finish alone.
C21_LastFinalResultCloses ==
    \A r \in Requests :
        (Route(r) = "chat_stream" /\ task[r] = "done") =>
            LET evs == events[r]
                in_loop == SubSeq(sent[r], 1, sent_in_loop[r])
                after_loop == SubSeq(sent[r], sent_in_loop[r] + 1, Len(sent[r]))
                last_id == evs[Max(FinalResults(evs))].tool_call_id.v
            IN  /\ \A i \in FinalResults(evs) :
                      Count(in_loop, LAMBDA c : c = ToolInputStartChunk(evs[i].tool_call_id.v,
                                                                        evs[i].tool_name.v))
                        >= Cardinality({j \in FinalResults(evs) :
                                            evs[j].tool_call_id = evs[i].tool_call_id})
                /\ IF FinalResults(evs) = {}
                   THEN after_loop = <<FinishChunk>>
                   ELSE /\ after_loop = <<ToolOutputAvailableChunk(last_id, None), FinishChunk>>
                        /\ \A i \in FinalResults(evs) :
                              evs[i].tool_call_id.v # last_id =>
                                  \A k \in 1..Len(after_loop) :
                                      "tool_call_id" \in DOMAIN after_loop[k] =>
                                          after_loop[k].tool_call_id # evs[i].tool_call_id.v

\* two final results, t2 and then t1, each sent its tool-input-start, and the
\* one closing chunk carries t1
C21_Witness ==
    \E r \in Requests :
        /\ task[r] = "done"
        /\ events[r] = <<FinalResultEvent(Str("calc"), Str("t2")),
                         FinalResultEvent(Str("calc"), Str("t1"))>>
        /\ sent[r] = <<StartChunk, ToolInputStartChunk("t2", "calc"),
                       ToolInputStartChunk("t1", "calc"),
                       ToolOutputAvailableChunk("t1", None), FinishChunk>>

\* the chunk kinds the handler sends
AgentPathKinds ==
    {"start", "text-start", "text-delta", "reasoning-start", "reasoning-delta",
     "tool-input-start", "tool-input-delta", "tool-output-available", "finish"}

\* C22: on the agent path every chunk sent, yielded or written is of one of
\* the kinds start, text-start, text-delta, reasoning-start, reasoning-delta,
\* tool-input-start, tool-input-delta, tool-output-available, finish (so never
\* text-end, reasoning-end, tool-input-available, tool-output-error, error or
\* abort), and every text and reasoning chunk carries the message id of the
\* session.
C22_AgentPathChunkKinds ==
    \A r \in Requests :
        Route(r) = "chat_stream" =>
            /\ \A i \in 1..Len(sent[r]) :
                  /\ sent[r][i].type \in AgentPathKinds
                  /\ sent[r][i].type \in {"text-start", "text-delta", "reasoning-start",
                                          "reasoning-delta"} =>
                        sent[r][i].id = message_id[r]
            /\ \A i \in 1..Len(delivered[r]) : delivered[r][i].type \in AgentPathKinds
            /\ \A i \in 1..Len(written[r]) :
                  IsDONE(written[r][i])
                    \/ written[r][i].type \in {JsonStr(k) : k \in AgentPathKinds}

\* a response streamed to its end opened a text and a tool-input stream and
\* closed neither
C22_Witness ==
    \E r \in Requests :
        /\ pc[r] = "done"
        /\ Route(r) = "chat_stream"
        /\ events[r] = <<PartStartEvent(TextPart("Hi")),
                         PartStartEvent(ToolCallPart("calc", "t1", Str("{\"location\"")))>>
        /\ delivered[r] = <<StartChunk, TextStartChunk(message_id[r]),
                            TextDeltaChunk(message_id[r], "Hi"),
                            ToolInputStartChunk("t1", "calc"),
                            ToolInputDeltaChunk("t1", "{\"location\""), FinishChunk>>

====
